---- MODULE Spec2Model ----
(***************************************************************************)
(* Model of the markdown editor backend: the note endpoints of src/app.py  *)
(* over the "markdown" collection, and the file endpoints of src/app.py    *)
(* and src/algorithm/file_tree_util.py over the directory root_path.       *)
(*                                                                         *)
(* Time is counted in ticks of the server clock at the precision the       *)
(* document store keeps.  A request id is a natural number: 0 stands for a *)
(* string that is not a well-formed ObjectId, n >= 1 for the 24 hex digit  *)
(* string of ObjectId n.                                                   *)
(***************************************************************************)
EXTENDS Integers, Sequences, FiniteSets, TLC

VARIABLES notes, nextId, now, pending, fs

vars == <<notes, nextId, now, pending, fs>>

(* ------------------------------ bounds --------------------------------- *)

\* Number of ObjectIds the driver hands out in a run.
MaxNotes == 2
\* Last tick of the server clock in a run.
MaxTime == 2
\* Clock ticks in one second: the store keeps milliseconds, and the scale is
\* cut down so that a run of MaxTime ticks passes a whole-second boundary.
TicksPerSecond == 2
\* Most entries the filesystem holds in a run, "/" included.
MaxEntries == 8

(* ------------------------------ values --------------------------------- *)

\* Python None in an Optional[str] field, or a key missing from a document.
NoneStr == "None"
\* Python None in an Optional[datetime] field.
NoneTime == 0 - 1
\* A datetime field left out of the request body (its default applies).
Omitted == 0 - 2
\* find_one / find_one_and_update returning None.
NoDoc == [none |-> TRUE]

Contents == {"c1"}
Creators == {"u1"}
FilePaths == {"p1"}
\* Timestamps a client can put in a body: the clock's first tick.
ClientTimes == {1}

\* Request ids: 0 is malformed; an id the driver has not handed out yet, or
\* whose note was deleted, is well-formed and names no note.
ReqIds == 0..MaxNotes

(* ------------------------------ models --------------------------------- *)

\* MarkdownModel.creator: Field(default="admin").
DefaultCreator == "admin"

\* Bodies of POST /markdowns/ (MarkdownModel without id).
\* Two are drawn, both without creator: one that leaves both timestamps to
\* the server, one that gives both.
CreatePayloads ==
    {p \in [content : Contents, file_name : {"f1"},
            creator : {NoneStr},
            date_added : {Omitted} \cup ClientTimes,
            date_modified : {Omitted} \cup ClientTimes] :
        (p.date_added = Omitted) <=> (p.date_modified = Omitted)}

\* MarkdownModel validation: defaults fill the fields the body leaves out.
\* date_added and date_modified each call datetime.utcnow, at t1 and t2.
MarkdownModel(p, t1, t2) ==
    [content |-> p.content,
     file_name |-> p.file_name,
     creator |-> IF p.creator = NoneStr THEN DefaultCreator ELSE p.creator,
     date_added |-> IF p.date_added = Omitted THEN t1 ELSE p.date_added,
     date_modified |-> IF p.date_modified = Omitted THEN t2 ELSE p.date_modified]

\* markdown.model_dump(by_alias=True, exclude=["id"]): the inserted document.
\* It has no file_path key.
InsertDoc(m) ==
    [content |-> m.content, file_name |-> m.file_name, creator |-> m.creator,
     date_added |-> m.date_added, date_modified |-> m.date_modified,
     file_path |-> NoneStr]

\* Bodies of PUT /markdowns/{id} (UpdateMarkdownModel).  A str field that is
\* left out and one that is null both validate to None.
\* Drawn: every combination of file_name and date_modified with the other
\* fields None, and one body that gives the three other fields.
UpdatePayloads ==
    {u \in [file_path : {NoneStr} \cup FilePaths,
            file_name : {NoneStr, "f2"},
            creator : {NoneStr} \cup Creators,
            date_added : {NoneTime} \cup ClientTimes,
            date_modified : {Omitted, NoneTime} \cup ClientTimes] :
        \/ u.file_path = NoneStr /\ u.creator = NoneStr /\ u.date_added = NoneTime
        \/ /\ u.file_path # NoneStr /\ u.creator # NoneStr /\ u.date_added # NoneTime
           /\ u.file_name = NoneStr /\ u.date_modified = Omitted}

\* Mutant of UpdateMarkdownModel: date_modified defaults to None.
UpdateMarkdownModel_NoDefault(u, t) ==
    [u EXCEPT !.date_modified = IF @ = Omitted THEN NoneTime ELSE @]

\* UpdateMarkdownModel validation: date_modified defaults to utcnow.
UpdateMarkdownModel(u, t) ==
    [u EXCEPT !.date_modified = IF @ = Omitted THEN t ELSE @]

\* len({k: v for k, v in model_dump().items() if v is not None}).
SetLen(m) ==
    (IF m.file_path = NoneStr THEN 0 ELSE 1)
    + (IF m.file_name = NoneStr THEN 0 ELSE 1)
    + (IF m.creator = NoneStr THEN 0 ELSE 1)
    + (IF m.date_added = NoneTime THEN 0 ELSE 1)
    + (IF m.date_modified = NoneTime THEN 0 ELSE 1)

\* Mutant of ApplySet: the document is replaced by the update (content is
\* kept, a key the update leaves out is lost) instead of merged.
ApplySet_Replace(doc, m) ==
    [content |-> doc.content, file_name |-> m.file_name, creator |-> m.creator,
     date_added |-> m.date_added, date_modified |-> m.date_modified,
     file_path |-> m.file_path]

\* {"$set": markdown}: the keys that are not None overwrite the document's.
ApplySet(doc, m) ==
    [content |-> doc.content,
     file_name |-> IF m.file_name = NoneStr THEN doc.file_name ELSE m.file_name,
     creator |-> IF m.creator = NoneStr THEN doc.creator ELSE m.creator,
     date_added |-> IF m.date_added = NoneTime THEN doc.date_added ELSE m.date_added,
     date_modified |-> IF m.date_modified = NoneTime THEN doc.date_modified
                       ELSE m.date_modified,
     file_path |-> IF m.file_path = NoneStr THEN doc.file_path ELSE m.file_path]

\* json_encoders, v.strftime('%Y-%m-%d %H:%M:%S'): a datetime is returned as
\* its whole second.
Strftime(v) == v \div TicksPerSecond

\* response_model=MarkdownModel: the document as returned (file_path is no
\* field of the model and is dropped; _id is returned as id; the datetimes
\* go through json_encoders).
ResponseModel(id, doc) ==
    [id |-> id, content |-> doc.content, file_name |-> doc.file_name,
     creator |-> doc.creator, date_added |-> Strftime(doc.date_added),
     date_modified |-> Strftime(doc.date_modified)]

(* ------------------------------ the store ------------------------------ *)

\* bson.ObjectId(id): raises InvalidId unless id is a well-formed ObjectId string.
ObjectIdValid(id) == id >= 1

\* A filter value {"_id": v}: an ObjectId, or the str it was given as.
AsObjectId(id) == [bson |-> "objectId", v |-> id]
AsStr(id) == [bson |-> "string", v |-> id]

\* Every stored _id is an ObjectId made by insert_one: a filter matches a
\* document only when its value has that type and that value.
Matches(key) == key.bson = "objectId" /\ key.v \in DOMAIN notes

\* markdown_collection.find_one({"_id": key}).
FindOne(key) == IF Matches(key) THEN notes[key.v] ELSE NoDoc

\* The collection without document k.
Without(f, k) == [j \in (DOMAIN f) \ {k} |-> f[j]]

\* The collection with document k set to doc.
With(f, k, doc) == [j \in (DOMAIN f) \cup {k} |-> IF j = k THEN doc ELSE f[j]]

\* A handler's response: the HTTP status and the record returned.
Response(status, body) == [status |-> status, body |-> body]

(* ------------------------------ paths ---------------------------------- *)

\* A path string is a sequence of tokens: "/", the quote character, "..",
\* and the tokens of entry names.  A segment is what lies between two "/".
Slash == "/"
Quote == "\""
DotDot == <<"..">>

\* root_path.
root_path == <<Slash, "Users", Slash, "jiawen", Slash, "Documents", Slash, "markdown-editor">>

\* skip_node_list.
skip_node_list == {<<".DS_Store">>}

StartsWith(s, t) == Len(s) >= 1 /\ s[1] = t
EndsWith(s, t) == Len(s) >= 1 /\ s[Len(s)] = t

\* os.path.join(a, b): an absolute b replaces a; otherwise b is appended,
\* after a "/" unless a is empty or ends with one.
Join2(a, b) ==
    IF StartsWith(b, Slash) THEN b
    ELSE IF a = <<>> \/ EndsWith(a, Slash) THEN a \o b
    ELSE a \o <<Slash>> \o b

\* os.path.join(a, b, c).
Join3(a, b, c) == Join2(Join2(a, b), c)

\* s.lstrip('"').
RECURSIVE LStrip(_)
LStrip(s) == IF StartsWith(s, Quote) THEN LStrip(Tail(s)) ELSE s

\* s.rstrip('"').
RECURSIVE RStrip(_)
RStrip(s) == IF EndsWith(s, Quote) THEN RStrip(SubSeq(s, 1, Len(s) - 1)) ELSE s

\* path.strip('""'): quote characters are removed from both ends.
Strip(s) == RStrip(LStrip(s))

\* The segments of a path string, as the kernel reads it: empty segments
\* (a leading, trailing or doubled "/") name nothing.
RECURSIVE SplitFrom(_, _, _)
SplitFrom(s, i, cur) ==
    IF i > Len(s)
    THEN IF cur = <<>> THEN <<>> ELSE <<cur>>
    ELSE IF s[i] = Slash
         THEN (IF cur = <<>> THEN <<>> ELSE <<cur>>) \o SplitFrom(s, i + 1, <<>>)
         ELSE SplitFrom(s, i + 1, Append(cur, s[i]))

Split(s) == SplitFrom(s, 1, <<>>)

(* ------------------------------ the filesystem ------------------------- *)

\* fs maps the canonical path of every entry (its segments from "/") to the
\* entry: a directory, or a regular file and its content.
Dir == [kind |-> "dir", content |-> ""]
File(c) == [kind |-> "file", content |-> c]

\* At start-up root_path is a directory (file_tree_util lists it on import),
\* and so is every directory on the way to it; outside the root is a file.
InitFs ==
    [p \in {SubSeq(Split(root_path), 1, k) : k \in 0..Len(Split(root_path))} |-> Dir]
        @@ (<<<<"a">>>> :> File("x"))

Parent(p) == IF p = <<>> THEN <<>> ELSE SubSeq(p, 1, Len(p) - 1)

IsDirAt(f, p) == p \in DOMAIN f /\ f[p].kind = "dir"

\* p is q or lies below q.
Under(p, q) == Len(p) >= Len(q) /\ SubSeq(p, 1, Len(q)) = q

\* Path resolution from directory cur over the segments segs: every
\* component but the last must be an existing directory, ".." is the parent.
\* err: a component that had to be a directory is not one.
RECURSIVE Walk(_, _, _)
Walk(f, cur, segs) ==
    IF segs = <<>> THEN [err |-> FALSE, path |-> cur]
    ELSE IF ~IsDirAt(f, cur) THEN [err |-> TRUE, path |-> cur]
    ELSE Walk(f, IF Head(segs) = DotDot THEN Parent(cur) ELSE Append(cur, Head(segs)),
              Tail(segs))

\* The entry an absolute path string names in f.  A path that ends with "/"
\* names a directory only.
Lookup(f, s) ==
    LET r == Walk(f, <<>>, Split(s))
    IN [err |-> r.err, path |-> r.path, mustDir |-> EndsWith(s, Slash)]

\* os.path.isdir(s).
IsDir(f, s) == LET r == Lookup(f, s) IN ~r.err /\ IsDirAt(f, r.path)

\* os.path.isfile(s).
IsFile(f, s) ==
    LET r == Lookup(f, s)
    IN ~r.err /\ ~r.mustDir /\ r.path \in DOMAIN f /\ f[r.path].kind = "file"

\* os.path.exists(s).
Exists(f, s) == IsDir(f, s) \/ IsFile(f, s)

\* os.listdir of the directory at canonical path p: the names of its entries.
ListDir(f, p) == {q[Len(q)] : q \in {x \in DOMAIN f : x # <<>> /\ Parent(x) = p}}

\* The filesystem with an entry at p.
Put(f, p, e) == [q \in (DOMAIN f) \cup {p} |-> IF q = p THEN e ELSE f[q]]

\* The filesystem without the entries in gone.
Remove(f, gone) == [q \in (DOMAIN f) \ gone |-> f[q]]

\* The outcome of a filesystem call: whether it raised, and the filesystem after.
Outcome(raised, f) == [raised |-> raised, fs |-> f]

\* open(s, 'w') then write(c): the file is created or truncated.  It raises
\* when a directory on the way is missing or is a file, and when s names a
\* directory.
OpenWrite(f, s, c) ==
    LET r == Lookup(f, s)
    IN IF r.err \/ r.mustDir \/ IsDirAt(f, r.path)
       THEN Outcome(TRUE, f)
       ELSE Outcome(FALSE, Put(f, r.path, File(c)))

\* os.makedirs(s, exist_ok=True): every missing directory on the way is
\* made, in order; it raises at a component that is a file, and what was
\* made before stays.
RECURSIVE MakeDirsFrom(_, _, _)
MakeDirsFrom(f, cur, segs) ==
    IF segs = <<>> THEN Outcome(~IsDirAt(f, cur), f)
    ELSE IF ~IsDirAt(f, cur) THEN Outcome(TRUE, f)
    ELSE LET nxt == IF Head(segs) = DotDot THEN Parent(cur) ELSE Append(cur, Head(segs))
         IN MakeDirsFrom(IF nxt \in DOMAIN f THEN f ELSE Put(f, nxt, Dir), nxt, Tail(segs))

MakeDirs(f, s) == MakeDirsFrom(f, <<>>, Split(s))

\* shutil.rmtree(s) of a directory: everything below it is removed, then
\* os.rmdir(s) removes the directory itself.  rmdir raises for "/", for a
\* path whose last segment is "..", and for a path that no longer resolves.
RmTree(f, s) ==
    LET d == Lookup(f, s).path
        emptied == Remove(f, {q \in DOMAIN f : Under(q, d) /\ q # d})
        r == Lookup(emptied, s)
        segs == Split(s)
        lastDots == segs # <<>> /\ segs[Len(segs)] = DotDot
    IN IF d = <<>> \/ lastDots \/ r.err \/ ~IsDirAt(emptied, r.path)
       THEN Outcome(TRUE, emptied)
       ELSE Outcome(FALSE, Remove(emptied, {d}))

\* os.remove(s): raises unless s names a regular file.
OsRemove(f, s) ==
    IF IsFile(f, s) THEN Outcome(FALSE, Remove(f, {Lookup(f, s).path}))
    ELSE Outcome(TRUE, f)

(* ------------------------------ handlers ------------------------------- *)

Init ==
    /\ notes = <<>>
    /\ nextId = 1
    /\ now = 1
    /\ pending = {}
    /\ fs = InitFs

\* The server clock advances.
Tick ==
    /\ now < MaxTime
    /\ now' = now + 1
    /\ UNCHANGED <<notes, nextId, pending, fs>>

\* The clock values a handler that acts now can carry from the validation of
\* its body.  FastAPI validates the body, running the default_factory calls,
\* before the handler's first await; while the handler waits there, other
\* requests run and the clock advances.  Any number of handlers can wait, and
\* the clock is at 1 when the server starts, so in every state a handler
\* validated at any tick up to now may be the one that acts.
ValidatedAt == 1..now

\* create_markdown up to its second await: the body was validated at t1 (the
\* clock may tick between the two default_factory calls), and now insert_one
\* stores the document under a fresh ObjectId.  The handler then waits for
\* its find_one: pending holds the inserted_id of every handler that does.
CreateInsert(p, t1) ==
    /\ nextId <= MaxNotes
    /\ t1 \in ValidatedAt
    /\ \E d \in 0..1 :
        /\ t1 + d \in ValidatedAt
        /\ notes' = With(notes, nextId, InsertDoc(MarkdownModel(p, t1, t1 + d)))
    /\ pending' = pending \cup {nextId}
    /\ nextId' = nextId + 1
    /\ UNCHANGED <<now, fs>>

\* What create_markdown returns when its find_one runs in this state: the
\* document read back, through response_model (None fails validation).
CreateResponse(id) ==
    LET created_markdown == FindOne(AsObjectId(id))
    IN IF created_markdown = NoDoc
       THEN Response(500, NoDoc)
       ELSE Response(201, ResponseModel(id, created_markdown))

\* create_markdown from its second await: find_one, then return.
CreateReadBack(id) ==
    /\ id \in pending
    /\ pending' = pending \ {id}
    /\ UNCHANGED <<notes, nextId, now, fs>>

\* show_markdown: reads only, so it is its response.
ShowMarkdown(id) ==
    IF ~ObjectIdValid(id)
    THEN Response(500, NoDoc)
    ELSE LET markdown == FindOne(AsObjectId(id))
         IN IF markdown # NoDoc
            THEN Response(200, ResponseModel(id, markdown))
            ELSE Response(404, NoDoc)

\* The collection after find_one_and_update({"_id": ObjectId(id)}, {"$set": m}).
FindOneAndUpdate(id, m) ==
    IF Matches(AsObjectId(id))
    THEN With(notes, id, ApplySet(notes[id], m))
    ELSE notes

\* The collection after update_markdown(id, u) whose body was validated at
\* clock t and whose store operation runs now.
UpdateStore(id, u, t) ==
    LET markdown == UpdateMarkdownModel(u, t)
    IN IF SetLen(markdown) >= 1 /\ ObjectIdValid(id)
       THEN FindOneAndUpdate(id, markdown)
       ELSE notes

\* What update_markdown(id, u), validated at clock t, returns when its store
\* operation runs now.
UpdateResponse(id, u, t) ==
    LET markdown == UpdateMarkdownModel(u, t)
    IN IF SetLen(markdown) >= 1
       THEN IF ~ObjectIdValid(id)
            THEN Response(500, NoDoc)
            ELSE IF Matches(AsObjectId(id))
                 THEN Response(200, ResponseModel(id, FindOneAndUpdate(id, markdown)[id]))
                 ELSE Response(404, NoDoc)
       ELSE LET existing_markdown == FindOne(AsStr(id))
            IN IF existing_markdown # NoDoc
               THEN Response(200, ResponseModel(id, existing_markdown))
               ELSE Response(404, NoDoc)

\* The clock values the validation of update body u may have read:
\* default_factory runs only when the body leaves date_modified out, and then
\* at any tick up to now; otherwise the clock is not read.
StampedAt(u) == IF u.date_modified = Omitted THEN ValidatedAt ELSE {NoneTime}

\* The update bodies the handlers are run with: those that give no file_path,
\* creator or date_added.
SentUpdates == {u \in UpdatePayloads : u.file_path = NoneStr}

\* update_markdown: the body was validated at t, and now its store operation
\* runs.
UpdateMarkdown(id, u, t) ==
    /\ t \in StampedAt(u)
    /\ notes' = UpdateStore(id, u, t)
    /\ UNCHANGED <<nextId, now, pending, fs>>

\* Mutant of DeleteOne: the filter is dropped (every document is deleted).
DeleteOne_All(id) == IF Matches(AsObjectId(id)) THEN <<>> ELSE notes

\* The collection after delete_one({"_id": ObjectId(id)}).
DeleteOne(id) == IF Matches(AsObjectId(id)) THEN Without(notes, id) ELSE notes

\* delete_result.deleted_count.
DeletedCount(id) == Cardinality(DOMAIN notes) - Cardinality(DOMAIN DeleteOne(id))

\* What delete_markdown(id) returns.
DeleteResponse(id) ==
    IF ~ObjectIdValid(id)
    THEN Response(500, NoDoc)
    ELSE IF DeletedCount(id) = 1
         THEN Response(204, NoDoc)
         ELSE Response(404, NoDoc)

\* The collection after delete_markdown(id).
DeleteStore(id) == IF ObjectIdValid(id) THEN DeleteOne(id) ELSE notes

\* delete_markdown.
DeleteMarkdown(id) ==
    /\ notes' = DeleteStore(id)
    /\ UNCHANGED <<nextId, now, pending, fs>>

(* ------------------------------ note claims ---------------------------- *)

\* An update body in which only file_name is set.
OnlyFileName(u) ==
    /\ u.file_name # NoneStr
    /\ u.file_path = NoneStr /\ u.creator = NoneStr /\ u.date_added = NoneTime
    /\ u.date_modified \in {Omitted, NoneTime}

\* An update body that sets no field.
NoField(u) ==
    /\ u.file_name = NoneStr
    /\ u.file_path = NoneStr /\ u.creator = NoneStr /\ u.date_added = NoneTime
    /\ u.date_modified \in {Omitted, NoneTime}

\* Documents a and b agree on every key but date_modified.
SameButModified(a, b) ==
    /\ a.content = b.content /\ a.file_name = b.file_name /\ a.creator = b.creator
    /\ a.date_added = b.date_added

\* C1: an update of an existing note whose body sets only file_name answers
\* 200 with the note's id, changes of that note only file_name (to the value
\* given) and date_modified, keeps its content, creator, date_added and
\* file_path, and leaves every other note of the collection as it was,
\* whenever its body was validated.
C1_OnlyFileNameFrame ==
    \A id \in DOMAIN notes : \A u \in UpdatePayloads : \A t \in StampedAt(u) :
        OnlyFileName(u) =>
            LET post == UpdateStore(id, u, t)
                r == UpdateResponse(id, u, t)
            IN /\ DOMAIN post = DOMAIN notes
               /\ \A k \in DOMAIN notes \ {id} : post[k] = notes[k]
               /\ post[id].file_name = u.file_name
               /\ post[id].content = notes[id].content
               /\ post[id].creator = notes[id].creator
               /\ post[id].date_added = notes[id].date_added
               /\ post[id].file_path = notes[id].file_path
               /\ r.status = 200 /\ r.body.id = id
               /\ r.body.file_name = u.file_name
               /\ r.body.content = notes[id].content

\* C1 witness: two notes are stored and one of them has been renamed by an
\* update that set nothing else (its creator and file_path are as created).
C1_Witness ==
    \E id \in DOMAIN notes : \E k \in DOMAIN notes :
        /\ k # id
        /\ notes[id].file_name = "f2" /\ notes[id].creator = DefaultCreator
        /\ notes[id].file_path = NoneStr
        /\ notes[k].file_name = "f1"

\* C2 (as claimed): an update with a body that sets no field, on a well-formed
\* id, answers 200 with the note unchanged but for date_modified when the
\* note exists, and 404 when it does not.
C2_EmptyUpdateReturnsNote ==
    \A id \in ReqIds : \A u \in UpdatePayloads : \A t \in StampedAt(u) :
        (ObjectIdValid(id) /\ NoField(u)) =>
            LET r == UpdateResponse(id, u, t)
            IN IF id \in DOMAIN notes
               THEN /\ r.status = 200
                    /\ r.body.id = id
                    /\ SameButModified(r.body, ResponseModel(id, notes[id]))
               ELSE r.status = 404

\* C3 (as claimed): get of an id that names no note answers 404, whether
\* the id is well-formed or not.
C3_GetMissingIsNotFound ==
    \A id \in ReqIds : id \notin DOMAIN notes => ShowMarkdown(id).status = 404

\* C4: delete of an existing note answers 204 with no content and removes
\* exactly that note, and a delete of the same id right after answers 404;
\* delete answers 204 only if the note exists, answers 404 for a well-formed
\* id that names no note and then changes nothing; and an id whose note is
\* gone never names a note again, so every later delete of it fails too.
C4_DeleteOnce ==
    /\ [](\A id \in ReqIds :
            LET post == DeleteStore(id)
                r == DeleteResponse(id)
            IN IF id \in DOMAIN notes
               THEN /\ r = Response(204, NoDoc)
                    /\ DOMAIN post = DOMAIN notes \ {id}
                    /\ \A k \in DOMAIN post : post[k] = notes[k]
               ELSE /\ r.status # 204
                    /\ ObjectIdValid(id) => r.status = 404
                    /\ post = notes)
    /\ [][\A id \in 1..MaxNotes :
            /\ (DeleteMarkdown(id) /\ id \in DOMAIN notes)
                   => DeleteResponse(id)'.status = 404
            /\ (id < nextId /\ id \notin DOMAIN notes)
                   => (id \notin DOMAIN notes' /\ DeleteResponse(id)'.status = 404)]_vars

\* C4 witness: of two notes created, one has been deleted and the other is
\* still stored.
C4_Witness ==
    /\ nextId = 3
    /\ \E id \in 1..2 : id \notin DOMAIN notes /\ (3 - id) \in DOMAIN notes

\* C5 (as claimed): the record a create returns when its find_one follows
\* its insert_one at once is returned with status 201 and has date_added
\* equal to date_modified.
C5_CreatedStampsEqual ==
    [][\A id \in 1..MaxNotes :
          (id = nextId /\ id \in pending') =>
              /\ CreateResponse(id)'.status = 201
              /\ CreateResponse(id)'.body.date_added
                     = CreateResponse(id)'.body.date_modified]_vars

\* C6 (as claimed): every successful update sets the stored date_modified to
\* the server's current time, and never lowers it.
C6_AlwaysRefreshed ==
    \A id \in DOMAIN notes : \A u \in UpdatePayloads : \A t \in StampedAt(u) :
        UpdateResponse(id, u, t).status = 200 =>
            LET post == UpdateStore(id, u, t)
            IN /\ post[id].date_modified = now
               /\ post[id].date_modified >= notes[id].date_modified

\* C6 (amended): a successful update whose body leaves date_modified out sets
\* the stored date_modified to the server's time when the body was validated,
\* which is not after the time the update takes effect, also when the body
\* gives nothing else; a body that gives date_modified stores the value
\* given, and a body with date_modified null and another field set leaves the
\* stored date_modified as it was.
C6_RefreshedWhenOmitted ==
    \A id \in DOMAIN notes : \A u \in UpdatePayloads : \A t \in StampedAt(u) :
        LET post == UpdateStore(id, u, t)
            r == UpdateResponse(id, u, t)
        IN /\ u.date_modified = Omitted =>
                 /\ r.status = 200
                 /\ post[id].date_modified = t
                 /\ r.body.date_modified = Strftime(t)
                 /\ t <= now
           /\ u.date_modified \in ClientTimes =>
                 /\ r.status = 200
                 /\ post[id].date_modified = u.date_modified
           /\ (u.date_modified = NoneTime /\ r.status = 200) =>
                 post[id].date_modified = notes[id].date_modified

\* C6 witness: one note has been renamed by an update and carries a
\* date_modified later than its date_added; an update of a stored note that
\* gives no field at all and was validated at the current tick brings that
\* note's date_modified up to the clock; and one validated a tick earlier
\* answers 200 and takes the date_modified of a note back to that tick.
C6_Witness ==
    \E id \in DOMAIN notes : \E k \in DOMAIN notes : \E u \in UpdatePayloads :
        /\ notes[k].file_name = "f2" /\ notes[k].date_modified > notes[k].date_added
        /\ NoField(u) /\ u.date_modified = Omitted
        /\ notes[id].date_modified < now
        /\ UpdateResponse(id, u, now).status = 200
        /\ UpdateStore(id, u, now)[id].date_modified = now
        /\ now - 1 \in ValidatedAt
        /\ UpdateResponse(k, u, now - 1).status = 200
        /\ UpdateStore(k, u, now - 1)[k].date_modified = now - 1
        /\ notes[k].date_modified = now

\* C10 (as claimed): while a create waits for its find_one, no step of
\* another request changes what it is going to return, which right after its
\* insert_one is the document it inserted.
C10_CreateReturnsInserted ==
    [][\A id \in 1..MaxNotes :
          (id \in pending /\ id \in pending') =>
              CreateResponse(id)' = CreateResponse(id)]_vars

(* ------------------------------ file requests ------------------------- *)

\* Entry names that requests use.
ItemNames == {<<"a">>, <<"b">>, <<".DS_Store">>}

\* Directory paths in requests: the root itself, a folder of it, its parent,
\* a path back to it through the folder, and an absolute path.
DirInputs == {<<>>, <<"a">>, DotDot, <<"a", Slash, "..">>, <<Slash>>}

\* NodeItem bodies of POST /file and POST /folder.
NodeItems == [path : DirInputs, name : ItemNames]

\* Paths of POST /get-file-content/, POST /save-file and DELETE /delete/.
PathInputs == DirInputs \cup {Join2(d, n) : d \in DirInputs, n \in ItemNames}

\* Paths of GET /folder-items: also paths sent inside quote characters.
TreeInputs == DirInputs \cup {<<Quote>> \o d \o <<Quote>> : d \in {<<>>, <<"a">>}}

\* FileContent.content values.
SaveContents == {"x"}

\* One item_node of get_file_tree; a file's node has no children key.
ItemNode(f, path, dir_path, item_name) ==
    IF IsDir(f, Join2(dir_path, item_name))
    THEN [name |-> item_name, path |-> Join2(path, item_name), type |-> "folder",
          children |-> <<>>]
    ELSE [name |-> item_name, path |-> Join2(path, item_name), type |-> "file"]

\* get_file_tree(path): the nodes, or the exception raised.
GetFileTree(f, path) ==
    LET dir_path == Join2(root_path, Strip(path))
    IN IF ~Exists(f, dir_path)
       THEN [raised |-> "FileNotFoundError", items |-> {}]
       ELSE IF ~IsDir(f, dir_path)
       THEN [raised |-> "NotADirectoryError", items |-> {}]
       ELSE [raised |-> "",
             items |-> {ItemNode(f, path, dir_path, item_name) :
                          item_name \in ListDir(f, Lookup(f, dir_path).path)
                                        \ skip_node_list}]

\* GET /folder-items: get_file_tree's list, or the 500 of an unhandled exception.
GetFolderItems(path) ==
    LET t == GetFileTree(fs, path)
    IN IF t.raised = "" THEN Response(200, t.items) ELSE Response(500, {})

\* POST /get-file-content/.
GetFileContent(path) ==
    LET file_path == Join2(root_path, path)
    IN IF Exists(fs, file_path) /\ IsFile(fs, file_path)
       THEN [content |-> fs[Lookup(fs, file_path).path].content, error |-> ""]
       ELSE [content |-> "", error |-> "File does not exist or is not a file."]

\* create_file(file_path) of POST /file.
CreateFile(node_item) ==
    OpenWrite(fs, Join3(root_path, node_item.path, node_item.name), "")

\* create_folder(folder_path) of POST /folder.
CreateFolder(node_item) ==
    MakeDirs(fs, Join3(root_path, node_item.path, node_item.name))

\* The write of POST /save-file.
WriteFile(path, content) == OpenWrite(fs, Join2(root_path, path), content)

\* The removal of DELETE /delete/.
DeletePath(path) ==
    LET file_path == Join2(root_path, path)
    IN IF IsDir(fs, file_path) THEN RmTree(fs, file_path) ELSE OsRemove(fs, file_path)

\* The status of a file endpoint whose filesystem call had outcome o: an
\* exception, handled or not, ends as a 500.
FileStatus(o) == IF o.raised THEN 500 ELSE 200

\* The filesystem keeps at most MaxEntries entries.
Fits(f) == Cardinality(DOMAIN f) <= MaxEntries

\* POST /file.
PostFile(node_item) ==
    /\ LET o == CreateFile(node_item)
       IN Fits(o.fs) /\ fs' = o.fs
    /\ UNCHANGED <<notes, nextId, now, pending>>

\* POST /folder.
PostFolder(node_item) ==
    /\ LET o == CreateFolder(node_item)
       IN Fits(o.fs) /\ fs' = o.fs
    /\ UNCHANGED <<notes, nextId, now, pending>>

\* POST /save-file.
SaveFile(path, content) ==
    /\ LET o == WriteFile(path, content)
       IN Fits(o.fs) /\ fs' = o.fs
    /\ UNCHANGED <<notes, nextId, now, pending>>

\* DELETE /delete/.
DeleteFileOrDirectory(path) ==
    /\ fs' = DeletePath(path).fs
    /\ UNCHANGED <<notes, nextId, now, pending>>

FsNext ==
    \/ \E node_item \in NodeItems : PostFile(node_item)
    \/ \E node_item \in NodeItems : PostFolder(node_item)
    \/ \E path \in PathInputs : \E content \in SaveContents : SaveFile(path, content)
    \/ \E path \in PathInputs : DeleteFileOrDirectory(path)

FsSpec == Init /\ [][FsNext]_vars

(* ------------------------------ file claims ---------------------------- *)

\* The canonical path of the root directory.
RootDir == Split(root_path)

\* C7 (as claimed): no request creates, overwrites or deletes an entry
\* outside the root: every entry that is not the root or below it is as it
\* was at start-up.
C7_OutsideRootUntouched ==
    \A p \in (DOMAIN fs) \cup (DOMAIN InitFs) :
        ~Under(p, RootDir) =>
            /\ p \in DOMAIN fs /\ p \in DOMAIN InitFs
            /\ fs[p] = InitFs[p]

\* The names of the entries directly in directory d.
DirectEntries(d) == {q[Len(q)] : q \in {x \in DOMAIN fs : Len(x) = Len(d) + 1 /\ Under(x, d)}}

\* C8 (as claimed): listing an existing directory D of the root answers 200
\* with exactly one node per direct entry of D whose name is not ignored; a
\* node is a folder iff its entry is a directory, has a children key iff it
\* is a folder, and then no children; a node's path is D's relative path (the
\* request path without the quote characters the lookup strips) joined with
\* the entry name, and leads to the entry.  The listing is a function of the
\* filesystem and writes nothing.
C8_ListsDirectEntries ==
    \A path \in TreeInputs :
        LET rel == Strip(path)
            dir_path == Join2(root_path, rel)
            d == Lookup(fs, dir_path).path
            r == GetFolderItems(path)
        IN (~StartsWith(path, Slash) /\ IsDir(fs, dir_path) /\ Under(d, RootDir)) =>
              /\ r.status = 200
              /\ {n.name : n \in r.body} = DirectEntries(d) \ {<<".DS_Store">>}
              /\ Cardinality(r.body) = Cardinality(DirectEntries(d) \ {<<".DS_Store">>})
              /\ \A n \in r.body :
                    /\ n.type \in {"file", "folder"}
                    /\ (n.type = "folder") <=> (fs[Append(d, n.name)].kind = "dir")
                    /\ ("children" \in DOMAIN n) <=> (n.type = "folder")
                    /\ (n.type = "folder") => (n.children = <<>>)
                    /\ n.path = IF rel = <<>> THEN n.name
                                ELSE rel \o <<Slash>> \o n.name
                    /\ Lookup(fs, Join2(root_path, n.path)).path = Append(d, n.name)

\* C9 (as claimed): listing a path that is not an existing directory answers 404.
C9_MissingDirectoryIsNotFound ==
    \A path \in TreeInputs :
        ~IsDir(fs, Join2(root_path, Strip(path))) => GetFolderItems(path).status = 404

Next ==
    \/ Tick
    \/ \E p \in CreatePayloads : \E t1 \in 1..MaxTime : CreateInsert(p, t1)
    \/ \E id \in ReqIds : CreateReadBack(id)
    \/ \E id \in ReqIds : \E u \in SentUpdates :
        \E t \in {NoneTime} \cup (1..MaxTime) : UpdateMarkdown(id, u, t)
    \/ \E id \in ReqIds : DeleteMarkdown(id)

Spec == Init /\ [][Next]_vars

====
